---- MODULE Spec2Model ----
(***************************************************************************)
(* Lifecycle model of ADBBridge (src/mcp_servers/adb_bridge.py): the       *)
(* coroutines run / start_monitoring / monitor_adb_logcat /                *)
(* stop_monitoring on one asyncio event loop, together with the logcat     *)
(* subprocess and the WebSocket connection to the desktop.                 *)
(*                                                                         *)
(* A task is a coroutine call chain.  Task 1 is run(); task 2 is a second, *)
(* direct call of start_monitoring() on the same object (only in SpecConc).*)
(* Each task has a position pc[t].  Positions in SuspendPoints are awaits: *)
(* only there may another task run or a cancellation be delivered.         *)
(*                                                                         *)
(* SpecParse applies parse_log_line to lines of text, and SpecCtor follows *)
(* __init__ through the compilation of the pattern catalog.  The lifecycle *)
(* specifications and SpecParse take the bridge object as given.           *)
(***************************************************************************)
EXTENDS Integers, Sequences, FiniteSets, TLC

VARIABLES
    is_monitoring,       \* self.is_monitoring
    desktop_connection,  \* self.desktop_connection: None or a connection id
    device_id,           \* self.device_id: None or a device serial
    adb_process,         \* self.adb_process: None or a process id
    conns,               \* connections ever opened: "open" | "broken" | "closed"
    procs,               \* subprocesses ever launched: state and unread stdout
    sent,                \* messages the desktop received, in order
    pc,                  \* position of each task
    site,                \* which call of stop_monitoring a task is in
    exc,                 \* exception a task is unwinding with
    path,                \* how the start_monitoring call of a task ended
    parsed,              \* ids of the lines passed to parse_log_line, in order
    eventLog,            \* outcome of each send_error_to_desktop call
    shutdowns,           \* times the body of stop_monitoring ran (past its guard)
    interrupts,          \* operator interrupts delivered
    nlines,              \* lines written by producers
    inflight,            \* the line whose event a task is sending
    cls,                 \* a text line and what parse_log_line made of it
    ctor                 \* progress of ADBBridge.__init__

vars == <<is_monitoring, desktop_connection, device_id, adb_process, conns,
          procs, sent, pc, site, exc, path, parsed, eventLog, shutdowns,
          interrupts, nlines, inflight, cls, ctor>>

\* Bounds of the model.
MaxLines == 2
MaxInterrupts == 1

None == 0
Tasks == {1, 2}
MainTask == 1

\* The results `adb devices` can give: no device, one device, several.
DeviceLists == {<< >>, <<1>>, <<2, 1>>}

\* A line of logcat output: its sequence number and whether parse_log_line
\* finds an error pattern in it.
Line(n, e) == [id |-> n, err |-> e]

\* Positions at which a coroutine is suspended in an await.
SuspendPoints == {"connect", "send_connected", "send_active", "send_event",
                  "mon_sleep", "stop_send", "stop_close", "run_sleep"}

\* asyncio runs one task at a time: t may step only if no other task is in
\* the middle of synchronous code.
CanStep(t) == \A u \in Tasks \ {t} : pc[u] \in SuspendPoints \cup {"absent", "done"}

Goto(t, p) == pc' = [pc EXCEPT ![t] = p]

\* Where a normal return from start_monitoring continues.
AfterStart(t) == IF t = MainTask THEN "run_check" ELSE "done"

\* Where a normal return from stop_monitoring continues.
AfterStop(t) == IF site[t] = "handler" THEN AfterStart(t) ELSE "done"

\* websockets send(): delivers on an open connection, raises otherwise.
SendOk(c) == c # None /\ conns[c] = "open"

Msg(c, k, n) == [conn |-> c, kind |-> k, line |-> n]

\* parse_log_line: an event for a line with an error pattern, else nothing.
parse_log_line(line) == IF line.err THEN line.id ELSE None

\* The classifier and the constructor are not part of a session: the
\* lifecycle specifications take the bridge object as given.
\* Python's None where a name is expected, and parse_log_line returning None.
NoName == "None"
NoEvent == [error_type |-> NoName, permission_type |-> NoName,
            severity |-> NoName]

NoText == [text |-> << >>, npre |-> 0, nbody |-> 0, stage |-> "unused",
           result |-> NoEvent]
Given == [port |-> 6544, stage |-> "given", idx |-> 0, pos |-> 0]

\* __init__, the fields set at lines 32-37.
Fields ==
    /\ is_monitoring = FALSE
    /\ desktop_connection = None
    /\ device_id = None
    /\ adb_process = None
    /\ conns = << >>
    /\ procs = << >>
    /\ sent = << >>
    /\ pc = [t \in Tasks |-> IF t = MainTask THEN "run_start" ELSE "absent"]
    /\ site = [t \in Tasks |-> "none"]
    /\ exc = [t \in Tasks |-> "none"]
    /\ path = [t \in Tasks |-> "none"]
    /\ parsed = << >>
    /\ eventLog = << >>
    /\ shutdowns = 0
    /\ interrupts = 0
    /\ nlines = 0
    /\ inflight = [t \in Tasks |-> None]

\* A bridge object about to execute run().
Init == Fields /\ cls = NoText /\ ctor = Given

\* ---------------------------------------------------------------------
\* start_monitoring

\* line 268: the only re-entrancy guard.
AlreadyMonitoring == is_monitoring

\* lines 268-274: guard, then suspend in websockets.connect.
StartGuard(t) ==
    /\ pc[t] = "sm_guard" /\ CanStep(t)
    /\ IF AlreadyMonitoring
         THEN /\ Goto(t, AfterStart(t))
              /\ path' = [path EXCEPT ![t] = "rejected"]
         ELSE /\ Goto(t, "connect")
              /\ UNCHANGED path
    /\ UNCHANGED <<is_monitoring, desktop_connection, device_id, adb_process,
                   conns, procs, sent, site, exc, parsed, eventLog,
                   shutdowns, interrupts, nlines, inflight>>
    /\ UNCHANGED <<cls, ctor>>

\* line 68: websockets.connect succeeds and the handle is stored.
ConnectOk(t) ==
    /\ pc[t] = "connect" /\ CanStep(t)
    /\ conns' = Append(conns, "open")
    /\ desktop_connection' = Len(conns) + 1
    /\ Goto(t, "send_connected")
    /\ UNCHANGED <<is_monitoring, device_id, adb_process, procs, sent, site,
                   exc, path, parsed, eventLog, shutdowns, interrupts, nlines, inflight>>
    /\ UNCHANGED <<cls, ctor>>

\* The `raise` of line 80 left out: the failure is logged and
\* start_monitoring carries on with device selection.
ConnectFailMut(t) ==
    /\ pc[t] = "connect" /\ CanStep(t)
    /\ Goto(t, "select_device")
    /\ path' = [path EXCEPT ![t] = "connect_failed"]
    /\ UNCHANGED <<is_monitoring, desktop_connection, device_id, adb_process,
                   conns, procs, sent, site, exc, parsed, eventLog, shutdowns,
                   interrupts, nlines, inflight>>
    /\ UNCHANGED <<cls, ctor>>

\* lines 68, 78-80, 303-305: websockets.connect raises; connect_to_desktop
\* re-raises; start_monitoring's handler calls stop_monitoring.
ConnectFail(t) ==
    /\ pc[t] = "connect" /\ CanStep(t)
    /\ Goto(t, "stop_guard")
    /\ site' = [site EXCEPT ![t] = "handler"]
    /\ path' = [path EXCEPT ![t] = "connect_failed"]
    /\ UNCHANGED <<is_monitoring, desktop_connection, device_id, adb_process,
                   conns, procs, sent, exc, parsed, eventLog, shutdowns,
                   interrupts, nlines, inflight>>
    /\ UNCHANGED <<cls, ctor>>

\* lines 72-76: the "connected" status is sent, or the send raises and the
\* handler at 303-305 calls stop_monitoring.
SendConnected(t) ==
    /\ pc[t] = "send_connected" /\ CanStep(t)
    /\ IF SendOk(desktop_connection)
         THEN /\ sent' = Append(sent, Msg(desktop_connection, "connected", None))
              /\ Goto(t, "select_device")
              /\ UNCHANGED <<site, path>>
         ELSE /\ Goto(t, "stop_guard")
              /\ site' = [site EXCEPT ![t] = "handler"]
              /\ path' = [path EXCEPT ![t] = "connected_send_failed"]
              /\ UNCHANGED sent
    /\ UNCHANGED <<is_monitoring, desktop_connection, device_id, adb_process,
                   conns, procs, exc, parsed, eventLog, shutdowns,
                   interrupts, nlines, inflight>>
    /\ UNCHANGED <<cls, ctor>>

\* lines 103-117: the first device of the list, or None.
select_device(devices) == IF devices = << >> THEN None ELSE devices[1]

\* lines 277-280.
SelectDevice(t) ==
    /\ pc[t] = "select_device" /\ CanStep(t)
    /\ \E devices \in DeviceLists :
         /\ device_id' = select_device(devices)
         /\ IF select_device(devices) = None
              THEN /\ Goto(t, AfterStart(t))
                   /\ path' = [path EXCEPT ![t] = "no_device"]
              ELSE /\ Goto(t, "start_adb_logcat")
                   /\ UNCHANGED path
    /\ UNCHANGED <<is_monitoring, desktop_connection, adb_process, conns,
                   procs, sent, site, exc, parsed, eventLog, shutdowns,
                   interrupts, nlines, inflight>>
    /\ UNCHANGED <<cls, ctor>>

\* The check of line 284 left out.
LaunchFailedMut(p) == FALSE

\* line 284: `if not adb_process`.
LaunchFailed(p) == p = None

\* lines 119-145 and 283-286: Popen succeeds and the handle is stored, or it
\* raises and start_adb_logcat returns None.
StartAdbLogcat(t) ==
    /\ pc[t] = "start_adb_logcat" /\ CanStep(t)
    /\ \E ok \in BOOLEAN :
         LET p == IF ok THEN Len(procs) + 1 ELSE None IN
         /\ procs' = IF ok
                       THEN Append(procs, [state |-> "running", out |-> << >>])
                       ELSE procs
         /\ adb_process' = IF ok THEN p ELSE adb_process
         /\ IF LaunchFailed(p)
              THEN /\ Goto(t, AfterStart(t))
                   /\ path' = [path EXCEPT ![t] = "launch_failed"]
              ELSE /\ Goto(t, "set_monitoring")
                   /\ UNCHANGED path
    /\ UNCHANGED <<is_monitoring, desktop_connection, device_id, conns, sent,
                   site, exc, parsed, eventLog, shutdowns, interrupts, nlines, inflight>>
    /\ UNCHANGED <<cls, ctor>>

\* line 288, then suspend in the send of the "active" status.
SetMonitoring(t) ==
    /\ pc[t] = "set_monitoring" /\ CanStep(t)
    /\ is_monitoring' = TRUE
    /\ Goto(t, "send_active")
    /\ UNCHANGED <<desktop_connection, device_id, adb_process, conns, procs,
                   sent, site, exc, path, parsed, eventLog, shutdowns,
                   interrupts, nlines, inflight>>
    /\ UNCHANGED <<cls, ctor>>

\* The send of lines 291-296 left out: the loop starts without the "active"
\* status.
SendActiveMut(t) ==
    /\ pc[t] = "send_active" /\ CanStep(t)
    /\ Goto(t, "mon_guard")
    /\ UNCHANGED <<is_monitoring, desktop_connection, device_id, adb_process,
                   conns, procs, sent, site, exc, path, parsed, eventLog,
                   shutdowns, interrupts, nlines, inflight>>
    /\ UNCHANGED <<cls, ctor>>

\* lines 291-296: the "active" status is sent, or the send raises and the
\* handler at 303-305 calls stop_monitoring.
SendActive(t) ==
    /\ pc[t] = "send_active" /\ CanStep(t)
    /\ IF SendOk(desktop_connection)
         THEN /\ sent' = Append(sent, Msg(desktop_connection, "active", None))
              /\ Goto(t, "mon_guard")
              /\ UNCHANGED <<site, path>>
         ELSE /\ Goto(t, "stop_guard")
              /\ site' = [site EXCEPT ![t] = "handler"]
              /\ path' = [path EXCEPT ![t] = "active_send_failed"]
              /\ UNCHANGED sent
    /\ UNCHANGED <<is_monitoring, desktop_connection, device_id, adb_process,
                   conns, procs, exc, parsed, eventLog, shutdowns,
                   interrupts, nlines, inflight>>
    /\ UNCHANGED <<cls, ctor>>

\* ---------------------------------------------------------------------
\* monitor_adb_logcat and stop_adb_logcat

\* lines 253-264: terminate, wait up to 5 s, kill on timeout (k is which of
\* the two ended a running process); a process that already exited is left
\* as it is.
ProcsAfterStop(k) ==
    IF adb_process = None
      THEN procs
      ELSE [procs EXCEPT ![adb_process].state = IF @ = "running" THEN k ELSE @]

\* lines 231-233.
MonitorGuard(t) ==
    /\ pc[t] = "mon_guard" /\ CanStep(t)
    /\ IF adb_process = None
         THEN /\ Goto(t, AfterStart(t))
              /\ path' = [path EXCEPT ![t] = "no_process"]
         ELSE /\ Goto(t, "mon_check")
              /\ UNCHANGED path
    /\ UNCHANGED <<is_monitoring, desktop_connection, device_id, adb_process,
                   conns, procs, sent, site, exc, parsed, eventLog,
                   shutdowns, interrupts, nlines, inflight>>
    /\ UNCHANGED <<cls, ctor>>

\* line 238: `poll() is None` holds while the process runs.
ProcessAlive(p) == procs[p].state = "running"

\* line 238: the loop condition.  Reading poll() of a cleared handle raises,
\* which the handler at 248 logs.
MonitorCheck(t) ==
    /\ pc[t] = "mon_check" /\ CanStep(t)
    /\ IF ~is_monitoring
         THEN /\ Goto(t, "mon_finally")
              /\ path' = [path EXCEPT ![t] = "stopped"]
         ELSE IF adb_process = None
           THEN /\ Goto(t, "mon_finally")
                /\ path' = [path EXCEPT ![t] = "loop_error"]
           ELSE IF ProcessAlive(adb_process)
             THEN /\ Goto(t, "mon_read")
                  /\ UNCHANGED path
             ELSE /\ Goto(t, "mon_finally")
                  /\ path' = [path EXCEPT ![t] = "eof"]
    /\ UNCHANGED <<is_monitoring, desktop_connection, device_id, adb_process,
                   conns, procs, sent, site, exc, parsed, eventLog,
                   shutdowns, interrupts, nlines, inflight>>
    /\ UNCHANGED <<cls, ctor>>

\* readline returning the newest buffered line instead of the oldest.
readlineMut(out) == out[Len(out)]

\* line 239: readline returns the oldest unread line of the pipe.
readline(out) == Head(out)

\* lines 239-244: readline blocks until a line is there or the pipe is at
\* end of file; a line goes to parse_log_line, an event to
\* send_error_to_desktop (lines 214-216: dropped if there is no connection
\* object, else the task suspends in the send).
MonitorRead(t) ==
    /\ pc[t] = "mon_read" /\ CanStep(t)
    /\ LET p == adb_process IN
       /\ procs[p].out # << >> \/ ~ProcessAlive(p)
       /\ IF procs[p].out # << >>
            THEN LET line == readline(procs[p].out) IN
                 /\ procs' = [procs EXCEPT ![p].out = Tail(@)]
                 /\ parsed' = Append(parsed, line.id)
                 /\ IF parse_log_line(line) = None
                      THEN /\ Goto(t, "mon_sleep")
                           /\ UNCHANGED <<eventLog, inflight>>
                      ELSE IF desktop_connection = None
                        THEN /\ Goto(t, "mon_sleep")
                             /\ eventLog' = Append(eventLog, "dropped")
                             /\ UNCHANGED inflight
                        ELSE /\ Goto(t, "send_event")
                             /\ inflight' = [inflight EXCEPT ![t] = parse_log_line(line)]
                             /\ UNCHANGED eventLog
            ELSE /\ Goto(t, "mon_sleep")
                 /\ UNCHANGED <<procs, parsed, eventLog, inflight>>
    /\ UNCHANGED <<is_monitoring, desktop_connection, device_id, adb_process,
                   conns, sent, site, exc, path, shutdowns, interrupts, nlines>>
    /\ UNCHANGED <<cls, ctor>>

\* lines 239, 248-249: readline raises on output it cannot decode; the
\* handler logs the error and the loop ends.
MonitorReadError(t) ==
    /\ pc[t] = "mon_read" /\ CanStep(t)
    /\ procs[adb_process].out # << >>
    /\ procs' = [procs EXCEPT ![adb_process].out = Tail(@)]
    /\ Goto(t, "mon_finally")
    /\ path' = [path EXCEPT ![t] = "loop_error"]
    /\ UNCHANGED <<is_monitoring, desktop_connection, device_id, adb_process,
                   conns, sent, site, exc, parsed, eventLog, shutdowns,
                   interrupts, nlines, inflight>>
    /\ UNCHANGED <<cls, ctor>>

\* lines 218-227: the event is sent, or the send raises and the failure is
\* logged; self.desktop_connection is left as it is.
SendEvent(t) ==
    /\ pc[t] = "send_event" /\ CanStep(t)
    /\ IF SendOk(desktop_connection)
         THEN /\ sent' = Append(sent, Msg(desktop_connection, "event", inflight[t]))
              /\ eventLog' = Append(eventLog, "sent")
         ELSE /\ eventLog' = Append(eventLog, "failed")
              /\ UNCHANGED sent
    /\ inflight' = [inflight EXCEPT ![t] = None]
    /\ Goto(t, "mon_sleep")
    /\ UNCHANGED <<is_monitoring, desktop_connection, device_id, adb_process,
                   conns, procs, site, exc, path, parsed, shutdowns,
                   interrupts, nlines>>
    /\ UNCHANGED <<cls, ctor>>

\* line 246.
MonitorSleep(t) ==
    /\ pc[t] = "mon_sleep" /\ CanStep(t)
    /\ Goto(t, "mon_check")
    /\ UNCHANGED <<is_monitoring, desktop_connection, device_id, adb_process,
                   conns, procs, sent, site, exc, path, parsed, eventLog,
                   shutdowns, interrupts, nlines, inflight>>
    /\ UNCHANGED <<cls, ctor>>

\* lines 250-251: stop_adb_logcat, then return to start_monitoring, which
\* returns (line 301); a cancellation in flight goes on to run's finally.
MonitorFinally(t) ==
    /\ pc[t] = "mon_finally" /\ CanStep(t)
    /\ \E k \in {"terminated", "killed"} : procs' = ProcsAfterStop(k)
    /\ adb_process' = None
    /\ Goto(t, IF exc[t] = "cancel" THEN "run_finally" ELSE AfterStart(t))
    /\ UNCHANGED <<is_monitoring, desktop_connection, device_id, conns, sent,
                   site, exc, path, parsed, eventLog, shutdowns, interrupts,
                   nlines, inflight>>
    /\ UNCHANGED <<cls, ctor>>

\* ---------------------------------------------------------------------
\* stop_monitoring

\* The guard of line 309 left out.
NotMonitoringMut == FALSE

\* line 309.
NotMonitoring == ~is_monitoring

\* lines 309-318: guard, clear the flag, stop_adb_logcat, then suspend in
\* the send of the "stopped" status if there is a connection object.
StopGuard(t) ==
    /\ pc[t] = "stop_guard" /\ CanStep(t)
    /\ IF NotMonitoring
         THEN /\ Goto(t, AfterStop(t))
              /\ UNCHANGED <<is_monitoring, procs, adb_process, shutdowns>>
         ELSE /\ is_monitoring' = FALSE
              /\ \E k \in {"terminated", "killed"} : procs' = ProcsAfterStop(k)
              /\ adb_process' = None
              /\ shutdowns' = shutdowns + 1
              /\ Goto(t, IF desktop_connection # None THEN "stop_send"
                                                      ELSE AfterStop(t))
    /\ UNCHANGED <<desktop_connection, device_id, conns, sent, site, exc,
                   path, parsed, eventLog, interrupts, nlines, inflight>>
    /\ UNCHANGED <<cls, ctor>>

\* lines 319-326: the "stopped" status, a failure swallowed.
StopSend(t) ==
    /\ pc[t] = "stop_send" /\ CanStep(t)
    /\ sent' = IF SendOk(desktop_connection)
                 THEN Append(sent, Msg(desktop_connection, "stopped", None))
                 ELSE sent
    /\ Goto(t, "stop_close")
    /\ UNCHANGED <<is_monitoring, desktop_connection, device_id, adb_process,
                   conns, procs, site, exc, path, parsed, eventLog,
                   shutdowns, interrupts, nlines, inflight>>
    /\ UNCHANGED <<cls, ctor>>

\* lines 329-334: close, a failure swallowed.
StopClose(t) ==
    /\ pc[t] = "stop_close" /\ CanStep(t)
    /\ conns' = [conns EXCEPT ![desktop_connection] = "closed"]
    /\ Goto(t, AfterStop(t))
    /\ UNCHANGED <<is_monitoring, desktop_connection, device_id, adb_process,
                   procs, sent, site, exc, path, parsed, eventLog,
                   shutdowns, interrupts, nlines, inflight>>
    /\ UNCHANGED <<cls, ctor>>

\* ---------------------------------------------------------------------
\* run

\* line 341.
RunStart ==
    /\ pc[MainTask] = "run_start" /\ CanStep(MainTask)
    /\ Goto(MainTask, "sm_guard")
    /\ UNCHANGED <<is_monitoring, desktop_connection, device_id, adb_process,
                   conns, procs, sent, site, exc, path, parsed, eventLog,
                   shutdowns, interrupts, nlines, inflight>>
    /\ UNCHANGED <<cls, ctor>>

\* line 344.
RunCheck ==
    /\ pc[MainTask] = "run_check" /\ CanStep(MainTask)
    /\ Goto(MainTask, IF is_monitoring THEN "run_sleep" ELSE "run_finally")
    /\ UNCHANGED <<is_monitoring, desktop_connection, device_id, adb_process,
                   conns, procs, sent, site, exc, path, parsed, eventLog,
                   shutdowns, interrupts, nlines, inflight>>
    /\ UNCHANGED <<cls, ctor>>

\* line 345.
RunSleep ==
    /\ pc[MainTask] = "run_sleep" /\ CanStep(MainTask)
    /\ Goto(MainTask, "run_check")
    /\ UNCHANGED <<is_monitoring, desktop_connection, device_id, adb_process,
                   conns, procs, sent, site, exc, path, parsed, eventLog,
                   shutdowns, interrupts, nlines, inflight>>
    /\ UNCHANGED <<cls, ctor>>

\* lines 351-352.
RunFinally ==
    /\ pc[MainTask] = "run_finally" /\ CanStep(MainTask)
    /\ Goto(MainTask, "stop_guard")
    /\ site' = [site EXCEPT ![MainTask] = "finally"]
    /\ UNCHANGED <<is_monitoring, desktop_connection, device_id, adb_process,
                   conns, procs, sent, exc, path, parsed, eventLog,
                   shutdowns, interrupts, nlines, inflight>>
    /\ UNCHANGED <<cls, ctor>>

\* Where a cancellation raised at an await of the main task lands: it is not
\* an Exception, so the handlers at 78, 226, 248, 303, 325 and 333 let it
\* pass; the finally blocks at 250 and 351 run.
CancelTarget(p, s) ==
    IF p \in {"send_event", "mon_sleep"} THEN "mon_finally"
    ELSE IF p \in {"stop_send", "stop_close"} /\ s = "finally" THEN "done"
    ELSE "run_finally"

\* lines 347-352, 372-375: the operator interrupts; the main task is
\* cancelled at the await it is suspended in.
Interrupt ==
    /\ pc[MainTask] \in SuspendPoints /\ CanStep(MainTask)
    /\ interrupts < MaxInterrupts
    /\ interrupts' = interrupts + 1
    /\ exc' = [exc EXCEPT ![MainTask] = "cancel"]
    /\ Goto(MainTask, CancelTarget(pc[MainTask], site[MainTask]))
    /\ UNCHANGED <<is_monitoring, desktop_connection, device_id, adb_process,
                   conns, procs, sent, site, path, parsed, eventLog,
                   shutdowns, nlines, inflight>>
    /\ UNCHANGED <<cls, ctor>>

\* The awaits inside the try block of start_monitoring (lines 272-301): the
\* first call is starting or active.
StartAwaits == {"connect", "send_connected", "send_active", "send_event",
                "mon_sleep"}

\* A second caller invokes start_monitoring on the same object while the
\* first call is suspended, starting or active.
SecondCall ==
    /\ pc[2] = "absent" /\ CanStep(2)
    /\ pc[MainTask] \in StartAwaits
    /\ Goto(2, "sm_guard")
    /\ UNCHANGED <<is_monitoring, desktop_connection, device_id, adb_process,
                   conns, procs, sent, site, exc, path, parsed, eventLog,
                   shutdowns, interrupts, nlines, inflight>>
    /\ UNCHANGED <<cls, ctor>>

\* ---------------------------------------------------------------------
\* environment: the logcat subprocess and the desktop end of the connection

\* The subprocess writes a line to its stdout.
ProducerWrite ==
    /\ nlines < MaxLines
    /\ \E p \in 1..Len(procs), e \in BOOLEAN :
         /\ ProcessAlive(p)
         /\ procs' = [procs EXCEPT ![p].out = Append(@, Line(nlines + 1, e))]
    /\ nlines' = nlines + 1
    /\ UNCHANGED <<is_monitoring, desktop_connection, device_id, adb_process,
                   conns, sent, pc, site, exc, path, parsed, eventLog,
                   shutdowns, interrupts, inflight>>
    /\ UNCHANGED <<cls, ctor>>

\* The subprocess exits by itself (device unplugged, adb server stopped).
ProducerExit ==
    /\ \E p \in 1..Len(procs) :
         /\ ProcessAlive(p)
         /\ procs' = [procs EXCEPT ![p].state = "exited"]
    /\ UNCHANGED <<is_monitoring, desktop_connection, device_id, adb_process,
                   conns, sent, pc, site, exc, path, parsed, eventLog,
                   shutdowns, interrupts, nlines, inflight>>
    /\ UNCHANGED <<cls, ctor>>

\* The transport of an open connection fails.
ConnectionDrop ==
    /\ \E c \in 1..Len(conns) :
         /\ conns[c] = "open"
         /\ conns' = [conns EXCEPT ![c] = "broken"]
    /\ UNCHANGED <<is_monitoring, desktop_connection, device_id, adb_process,
                   procs, sent, pc, site, exc, path, parsed, eventLog,
                   shutdowns, interrupts, nlines, inflight>>
    /\ UNCHANGED <<cls, ctor>>

\* ---------------------------------------------------------------------
\* specifications

\* The steps of a start_monitoring call and what it calls.
StartMonitoring(t) ==
    \/ StartGuard(t)
    \/ ConnectOk(t)
    \/ ConnectFail(t)
    \/ SendConnected(t)
    \/ SelectDevice(t)
    \/ StartAdbLogcat(t)
    \/ SetMonitoring(t)
    \/ SendActive(t)
    \/ MonitorGuard(t)
    \/ MonitorCheck(t)
    \/ MonitorRead(t)
    \/ MonitorReadError(t)
    \/ SendEvent(t)
    \/ MonitorSleep(t)
    \/ MonitorFinally(t)
    \/ StopGuard(t)
    \/ StopSend(t)
    \/ StopClose(t)

\* The steps of run().
Run ==
    \/ RunStart
    \/ RunCheck
    \/ RunSleep
    \/ RunFinally
    \/ StartMonitoring(MainTask)

Env == ProducerWrite \/ ProducerExit \/ ConnectionDrop

\* main(): one call of run().
Next == Run \/ Interrupt \/ Env

Spec == Init /\ [][Next]_vars

\* The event loop keeps running the task whenever it can step.
FairSpec == Spec /\ WF_vars(Run)

\* run() with a second, concurrent call of start_monitoring.
NextConc == Next \/ SecondCall \/ StartMonitoring(2)

SpecConc == Init /\ [][NextConc]_vars

\* ---------------------------------------------------------------------
\* parse_log_line on text
\*
\* A line is a sequence of tokens: " " is one space, every other token is a
\* run of non-space characters.  Adjacent non-space tokens are one word.

\* Bounds of the lines built.
MaxPrefix == 5
MaxBody == 3

SP == " "

FatalFoo == <<"FATAL", SP, "EXCEPTION:", SP, "foo">>
PermDenied == <<"Permission", SP, "denied">>

\* What a line starts with: a space, or a word and a space.
PrefixPieces == {<<SP>>, <<"w", SP>>}

\* What the rest of a line is made of.
BodyPieces == {<<SP>>, FatalFoo, PermDenied, <<"CAMERA">>,
               <<"camera">>, <<"READ_EXTERNAL_STORAGE">>,
               <<"OutOfMemoryError">>, <<"java.lang.NullPointerException">>,
               <<"RuntimeException">>}

\* re.IGNORECASE: both sides of a comparison are case-folded.
Fold(tok) ==
    CASE tok = "camera" -> "CAMERA"
      [] tok = "read_external_storage" -> "READ_EXTERNAL_STORAGE"
      [] OTHER -> tok

\* The error_patterns dictionary with entries in another order.
ErrorPatternsMut ==
    <<"runtime_exception", "fatal_exception", "null_pointer", "out_of_memory",
      "permission_denied", "network_error", "storage_error", "crash_anr",
      "native_crash", "security_exception", "illegal_state">>

\* lines 40-52: the keys of error_patterns in insertion order, which is the
\* order parse_log_line iterates in.
ErrorPatterns ==
    <<"fatal_exception", "null_pointer", "out_of_memory", "permission_denied",
      "network_error", "storage_error", "crash_anr", "native_crash",
      "security_exception", "illegal_state", "runtime_exception">>

\* lines 41-51: the text each pattern looks for.  native_crash is given the
\* text its pattern names; as written the pattern does not compile (see
\* Compiles below).
Signature(name) ==
    CASE name = "fatal_exception" -> <<"FATAL", SP, "EXCEPTION:", SP>>
      [] name = "null_pointer" -> <<"java.lang.NullPointerException">>
      [] name = "out_of_memory" -> <<"OutOfMemoryError">>
      [] name = "permission_denied" -> PermDenied
      [] name = "network_error" -> <<"java.net.ConnectException">>
      [] name = "storage_error" -> <<"java.io.FileNotFoundException">>
      [] name = "crash_anr" -> <<"ANR", SP, "in", SP>>
      [] name = "native_crash" -> <<"***", SP, "FATAL", SP, "EXCEPTION", SP,
                                    "IN", SP, "SYSTEM", SP, "PROCESS">>
      [] name = "security_exception" -> <<"SecurityException">>
      [] name = "illegal_state" -> <<"IllegalStateException">>
      [] name = "runtime_exception" -> <<"RuntimeException">>

\* lines 41, 47: the patterns ending in (.+) need one more character.
NeedsMore(name) == name \in {"fatal_exception", "crash_anr"}

\* sig occurs in msg at position i.
OccursAt(msg, sig, i) ==
    /\ i + Len(sig) - 1 <= Len(msg)
    /\ \A k \in 1..Len(sig) : Fold(msg[i + k - 1]) = Fold(sig[k])

\* sig occurs somewhere in msg.
Contains(msg, sig) == \E i \in 1..Len(msg) : OccursAt(msg, sig, i)

\* line 166: pattern.search(message).
Search(name, msg) ==
    \E i \in 1..Len(msg) :
        /\ OccursAt(msg, Signature(name), i)
        /\ NeedsMore(name) => i + Len(Signature(name)) <= Len(msg)

\* The permission_patterns dictionary with entries in another order.
PermissionPatternsMut ==
    <<"storage", "camera", "location", "network", "phone_state", "contacts",
      "sms">>

\* lines 55-63: the keys of permission_patterns in insertion order.
PermissionPatterns ==
    <<"camera", "location", "storage", "network", "phone_state", "contacts",
      "sms">>

\* lines 56-62: the alternatives of each permission pattern.
PermissionWords(name) ==
    CASE name = "camera" -> {"camera", "CAMERA"}
      [] name = "location" -> {"location", "gps", "GPS", "ACCESS_FINE_LOCATION"}
      [] name = "storage" -> {"storage", "external", "READ_EXTERNAL_STORAGE",
                              "WRITE_EXTERNAL_STORAGE"}
      [] name = "network" -> {"network", "internet", "INTERNET",
                              "ACCESS_NETWORK_STATE"}
      [] name = "phone_state" -> {"phone_state", "READ_PHONE_STATE"}
      [] name = "contacts" -> {"contacts", "READ_CONTACTS", "WRITE_CONTACTS"}
      [] name = "sms" -> {"sms", "SEND_SMS", "READ_SMS"}

\* line 174: perm_pattern.search(message).
PermissionSearch(name, msg) ==
    \E i \in 1..Len(msg), w \in PermissionWords(name) : Fold(msg[i]) = Fold(w)

\* lines 165-168 and 173-176: the first name of an ordered dictionary whose
\* pattern is among those found, or None.
FirstMatch(names, found) ==
    IF \E i \in 1..Len(names) : names[i] \in found
      THEN names[CHOOSE i \in 1..Len(names) :
                   /\ names[i] \in found
                   /\ \A j \in 1..(i - 1) : names[j] \notin found]
      ELSE NoName

\* The names of an ordered dictionary.
Names(names) == {names[i] : i \in 1..Len(names)}

\* lines 200-210.
get_error_severity(error_type) ==
    IF error_type \in {"fatal_exception", "native_crash", "out_of_memory"}
      THEN "critical"
    ELSE IF error_type \in {"permission_denied"} THEN "high"
    ELSE "medium"

Spaces(text) == {i \in 1..Len(text) : text[i] = SP}

\* line 153: line.split(' ', 5) gives one part more than the spaces it
\* splits at, and splits at no more than five.
NumParts(text) ==
    IF Cardinality(Spaces(text)) >= 5 THEN 6 ELSE Cardinality(Spaces(text)) + 1

\* lines 153, 159: parts[5], what follows the fifth space.
Message(text) ==
    LET fifth == CHOOSE i \in Spaces(text) :
                     Cardinality({j \in Spaces(text) : j <= i}) = 5
    IN SubSeq(text, fifth + 1, Len(text))

\* lines 147-198 (package_name, timestamp and the copies of the text are
\* left out of the event).
ParseLogLine(text) ==
    IF \A i \in 1..Len(text) : text[i] = SP THEN NoEvent
    ELSE IF NumParts(text) < 6 THEN NoEvent
    ELSE LET message == Message(text)
             error_type ==
                 FirstMatch(ErrorPatterns,
                            {n \in Names(ErrorPatterns) : Search(n, message)})
             permission_type ==
                 IF error_type = "permission_denied"
                   THEN FirstMatch(PermissionPatterns,
                                   {n \in Names(PermissionPatterns) :
                                      PermissionSearch(n, message)})
                   ELSE NoName
         IN IF error_type # NoName
              THEN [error_type |-> error_type,
                    permission_type |-> permission_type,
                    severity |-> get_error_severity(error_type)]
              ELSE NoEvent

Join(a, b) == a \o b

\* A line under construction gets another leading piece.
AppendPrefix ==
    /\ cls.stage = "input" /\ cls.nbody = 0 /\ cls.npre < MaxPrefix
    /\ \E p \in PrefixPieces :
         cls' = [cls EXCEPT !.text = Join(@, p), !.npre = @ + 1]
    /\ UNCHANGED <<is_monitoring, desktop_connection, device_id, adb_process,
                   conns, procs, sent, pc, site, exc, path, parsed, eventLog,
                   shutdowns, interrupts, nlines, inflight, ctor>>

\* A line under construction gets another piece.
AppendBody ==
    /\ cls.stage = "input" /\ cls.nbody < MaxBody
    /\ \E p \in BodyPieces :
         cls' = [cls EXCEPT !.text = Join(@, p), !.nbody = @ + 1]
    /\ UNCHANGED <<is_monitoring, desktop_connection, device_id, adb_process,
                   conns, procs, sent, pc, site, exc, path, parsed, eventLog,
                   shutdowns, interrupts, nlines, inflight, ctor>>

\* line 241: parse_log_line is called on the line.
Classify ==
    /\ cls.stage = "input"
    /\ cls' = [cls EXCEPT !.stage = "parsed", !.result = ParseLogLine(cls.text)]
    /\ UNCHANGED <<is_monitoring, desktop_connection, device_id, adb_process,
                   conns, procs, sent, pc, site, exc, path, parsed, eventLog,
                   shutdowns, interrupts, nlines, inflight, ctor>>

InitParse ==
    /\ Fields
    /\ cls = [NoText EXCEPT !.stage = "input"]
    /\ ctor = Given

NextParse == AppendPrefix \/ AppendBody \/ Classify

\* parse_log_line applied to every line built from the pieces.
SpecParse == InitParse /\ [][NextParse]_vars

\* ---------------------------------------------------------------------
\* ADBBridge.__init__: building the pattern catalog
\*
\* The source text of a pattern is a sequence of regular-expression tokens:
\* literal text, an escaped dot, "(", ")", "|", ".", and the repeats "*"
\* and "+".

\* Values of the desktop_ws_port parameter (line 31; 6544 is the default).
Ports == {6544, 6545, 8080, 8765}

\* lines 41-51 and 56-62: the arguments of re.compile in the order in which
\* the two dictionary displays evaluate them.
PatternSource ==
    << <<"FATAL EXCEPTION: ", "(", ".", "+", ")">>,
       <<"java", "\\.", "lang", "\\.", "NullPointerException">>,
       <<"OutOfMemoryError">>,
       <<"Permission denied">>,
       <<"java", "\\.", "net", "\\.", "ConnectException">>,
       <<"java", "\\.", "io", "\\.", "FileNotFoundException">>,
       <<"ANR in ", "(", ".", "+", ")">>,
       <<"*", "*", "*", " FATAL EXCEPTION IN SYSTEM PROCESS">>,
       <<"SecurityException">>,
       <<"IllegalStateException">>,
       <<"RuntimeException">>,
       <<"camera", "|", "CAMERA">>,
       <<"location", "|", "gps", "|", "GPS", "|", "ACCESS_FINE_LOCATION">>,
       <<"storage", "|", "external", "|", "READ_EXTERNAL_STORAGE", "|",
         "WRITE_EXTERNAL_STORAGE">>,
       <<"network", "|", "internet", "|", "INTERNET", "|",
         "ACCESS_NETWORK_STATE">>,
       <<"phone_state", "|", "READ_PHONE_STATE">>,
       <<"contacts", "|", "READ_CONTACTS", "|", "WRITE_CONTACTS">>,
       <<"sms", "|", "SEND_SMS", "|", "READ_SMS">> >>

Repeats == {"*", "+"}

\* re.compile: a repeat needs an item before it in its branch ("nothing to
\* repeat") that is not itself a repeat ("multiple repeat").
TokenOk(src, k) ==
    src[k] \in Repeats
        => (k > 1 /\ src[k - 1] \notin Repeats \cup {"(", "|"})

Lifecycle == <<is_monitoring, desktop_connection, device_id, adb_process,
               conns, procs, sent, pc, site, exc, path, parsed, eventLog,
               shutdowns, interrupts, nlines, inflight>>

\* re.compile accepts the next token of the pattern it is compiling.
ScanToken ==
    /\ ctor.stage = "compile"
    /\ ctor.pos <= Len(PatternSource[ctor.idx])
    /\ TokenOk(PatternSource[ctor.idx], ctor.pos)
    /\ ctor' = [ctor EXCEPT !.pos = @ + 1]
    /\ UNCHANGED <<Lifecycle, cls>>

\* re.compile returns; __init__ goes on to the next pattern, or returns
\* after the last one (line 63).
CompileDone ==
    /\ ctor.stage = "compile"
    /\ ctor.pos > Len(PatternSource[ctor.idx])
    /\ IF ctor.idx = Len(PatternSource)
         THEN ctor' = [ctor EXCEPT !.stage = "built"]
         ELSE ctor' = [ctor EXCEPT !.idx = @ + 1, !.pos = 1]
    /\ UNCHANGED <<Lifecycle, cls>>

\* re.compile raises re.error, which leaves __init__ and main() (line 356)
\* and is logged at lines 376-377.
CompileError ==
    /\ ctor.stage = "compile"
    /\ ctor.pos <= Len(PatternSource[ctor.idx])
    /\ ~TokenOk(PatternSource[ctor.idx], ctor.pos)
    /\ ctor' = [ctor EXCEPT !.stage = "raised"]
    /\ UNCHANGED <<Lifecycle, cls>>

\* __init__ after lines 32-37, about to build error_patterns.
InitCtor ==
    /\ Fields
    /\ cls = NoText
    /\ ctor \in {[port |-> p, stage |-> "compile", idx |-> 1, pos |-> 1] :
                   p \in Ports}

NextCtor == ScanToken \/ CompileDone \/ CompileError

\* The construction of the bridge object in main().
SpecCtor == InitCtor /\ [][NextCtor]_vars

\* ---------------------------------------------------------------------
\* properties

Running == {p \in 1..Len(procs) : procs[p].state = "running"}
NotClosed == {c \in 1..Len(conns) : conns[c] # "closed"}
StoppedSent == {i \in 1..Len(sent) : sent[i].kind = "stopped"}
InStop(p) == p \in {"stop_guard", "stop_send", "stop_close"}

\* C1: once the monitoring loop of an active session has ended, by the
\* subprocess exiting or by an error in the loop, and no interrupt arrives,
\* run() eventually terminates with the session idle.
C1_ActiveEventuallyIdle ==
    (path[MainTask] \in {"eof", "loop_error"} /\ interrupts = 0)
        ~> ((pc[MainTask] = "done" /\ ~is_monitoring) \/ interrupts > 0)

\* C2: when no device is selected, run() ends idle, with no subprocess
\* launched and the connection it opened closed.
C2_NoDeviceClosesConnection ==
    (pc[MainTask] = "done" /\ path[MainTask] = "no_device")
        => (~is_monitoring /\ procs = << >> /\ NotClosed = {})

\* C3: when the launch of logcat fails, run() ends idle with the connection
\* it opened closed.
C3_LaunchFailureClosesConnection ==
    (pc[MainTask] = "done" /\ path[MainTask] = "launch_failed")
        => (~is_monitoring /\ NotClosed = {})

\* C4: with a second call of start_monitoring made while the first is
\* starting or active, there is at any time at most one connection and at
\* most one subprocess.
C4_SecondStartRejected ==
    Cardinality(NotClosed) <= 1 /\ Cardinality(Running) <= 1

\* C5: when run() has finished after an operator interrupt, no subprocess is
\* running and every connection that was opened is closed.
C5_InterruptCleansUp ==
    (pc[MainTask] = "done" /\ interrupts > 0)
        => (Running = {} /\ NotClosed = {})

\* C6: after a send of an Event failed in the transport, every later Event
\* is dropped without a send being attempted.
C6_DroppedAfterSendFailure ==
    \A i, j \in 1..Len(eventLog) :
        (i < j /\ eventLog[i] = "failed") => eventLog[j] = "dropped"

\* C7: when run() has finished, the shutdown steps of stop_monitoring have
\* run exactly once.
C7_StopExactlyOnce ==
    pc[MainTask] = "done" => shutdowns = 1

\* C8: when the monitoring loop has ended because the subprocess was seen to
\* have exited, every line the subprocess wrote has been passed to
\* parse_log_line exactly once, in order.
C8_NoLineLostAtExit ==
    path[MainTask] = "eof"
        => (Len(parsed) = nlines /\ \A i \in 1..Len(parsed) : parsed[i] = i)

\* C9: is_monitoring turns true only at line 288 of a start_monitoring call
\* that has opened the connection, selected a device and launched the
\* subprocess.
C9_ActiveOnlyViaStarting ==
    [][(~is_monitoring /\ is_monitoring')
         => /\ \E t \in Tasks : pc[t] = "set_monitoring" /\ pc'[t] = "send_active"
            /\ desktop_connection \in 1..Len(conns)
            /\ device_id # None
            /\ adb_process \in 1..Len(procs)]_vars

\* C9 witness: the flag has just been set by the starting sequence.
C9_Witness ==
    /\ is_monitoring /\ pc[MainTask] = "send_active"
    /\ desktop_connection # None /\ device_id # None /\ adb_process # None

\* C10: a call of stop_monitoring ends with is_monitoring false and no
\* subprocess handle; a call made when is_monitoring is already false
\* returns at once, changing nothing and sending nothing; the "stopped"
\* status is sent at most once; stop_adb_logcat without a handle changes
\* nothing.
C10_StopIdempotent ==
    [][/\ (InStop(pc[MainTask]) /\ ~InStop(pc'[MainTask]))
            => (~is_monitoring' /\ adb_process' = None)
       /\ (pc[MainTask] = "stop_guard" /\ ~is_monitoring
             /\ pc'[MainTask] # pc[MainTask])
            => /\ ~InStop(pc'[MainTask])
               /\ UNCHANGED <<is_monitoring, desktop_connection, device_id,
                              adb_process, conns, procs, sent, shutdowns>>
       /\ Cardinality(StoppedSent') <= 1
       /\ (adb_process = None /\ pc[MainTask] \in {"stop_guard", "mon_finally"}
             /\ pc'[MainTask] # pc[MainTask])
            => (procs' = procs /\ adb_process' = None)]_vars

\* C10 witness: run()'s finally has called stop_monitoring after the call in
\* start_monitoring's handler did the shutdown.
C10_Witness ==
    /\ pc[MainTask] = "done" /\ site[MainTask] = "finally"
    /\ path[MainTask] = "active_send_failed" /\ shutdowns = 1
    /\ ~is_monitoring /\ adb_process = None

\* The line ids of the Event messages the desktop received, in order.
EventsSent == SelectSeq(sent, LAMBDA m : m.kind = "event")

\* C11: Events reach the desktop in the order in which the subprocess
\* emitted their lines: of two Events received, the earlier one comes from
\* the earlier line.
C11_EventsInLineOrder ==
    \A i, j \in 1..Len(EventsSent) :
        i < j => EventsSent[i].line < EventsSent[j].line

\* C11 witness: two Events have been received.
C11_Witness ==
    Len(EventsSent) = 2 /\ EventsSent[1].line = 1 /\ EventsSent[2].line = 2

\* C17: when a stop_monitoring call that found the session active has
\* completed, no subprocess runs, the connection is closed, device_id is
\* None and is_monitoring is false.
C17_StopResetsEverything ==
    (pc[MainTask] = "done" /\ shutdowns = 1 /\ exc[MainTask] = "none")
        => /\ ~is_monitoring
           /\ Running = {}
           /\ NotClosed = {}
           /\ device_id = None

\* C18: after websockets.connect failed, the session stays idle: no device
\* selected, no subprocess, no connection, nothing sent, and no exception
\* travels out of start_monitoring or run.
C18_ConnectFailureStaysIdle ==
    path[MainTask] = "connect_failed"
        => /\ ~is_monitoring
           /\ device_id = None
           /\ adb_process = None /\ procs = << >>
           /\ desktop_connection = None /\ conns = << >>
           /\ sent = << >>
           /\ exc[MainTask] = "none"
           /\ pc[MainTask] \in {"stop_guard", "run_check", "run_finally", "done"}

\* C18 witness: run() has returned after the connect failure.
C18_Witness ==
    path[MainTask] = "connect_failed" /\ pc[MainTask] = "done"

\* A stop is under way: stop_monitoring is running, or a finally block or a
\* cancellation is on its way to it.
Stopping ==
    \/ InStop(pc[MainTask])
    \/ pc[MainTask] \in {"mon_finally", "run_finally"}
    \/ exc[MainTask] = "cancel"

\* C19: while is_monitoring is true and no stop is under way, adb_process
\* and desktop_connection are set and the connection was opened.
C19_ActiveHoldsResources ==
    (is_monitoring /\ ~Stopping)
        => (adb_process # None /\ desktop_connection \in 1..Len(conns))

\* C20: the "connected" status is the first message and the only one of its
\* kind, every Event comes after the "active" status, and nothing comes
\* after the "stopped" status.
C20_MessageOrder ==
    \A i \in 1..Len(sent) :
        /\ (sent[i].kind = "connected") <=> (i = 1)
        /\ sent[i].kind = "event"
             => \E j \in 1..(i - 1) : sent[j].kind = "active"
        /\ sent[i].kind = "stopped" => i = Len(sent)

\* C20 witness: a session that sent all four kinds of message.
C20_Witness ==
    /\ Len(sent) = 4
    /\ sent[1].kind = "connected" /\ sent[2].kind = "active"
    /\ sent[3].kind = "event" /\ sent[4].kind = "stopped"

\* C12: for a line that splits into six parts, the error type returned is
\* that of the first rule, in the priority order of the specification, that
\* matches the message (and nothing is returned when no rule matches).
C12_SpecPriorityOrder ==
    LET SpecOrder == <<"fatal_exception", "native_crash", "out_of_memory",
                       "null_pointer", "permission_denied", "network_error",
                       "storage_error", "crash_anr", "security_exception",
                       "illegal_state", "runtime_exception">>
    IN (cls.stage = "parsed" /\ NumParts(cls.text) = 6)
         => cls.result.error_type
              = FirstMatch(SpecOrder, {n \in Names(SpecOrder) :
                                         Search(n, Message(cls.text))})

\* C13: a line with fewer than six whitespace-separated fields (maximal runs
\* of non-space characters) gives no event.
C13_FewFieldsNoEvent ==
    LET text == cls.text
        Fields6 == {i \in 1..Len(text) :
                      text[i] # SP /\ (i = 1 \/ text[i - 1] = SP)}
    IN (cls.stage = "parsed" /\ Cardinality(Fields6) < 6)
         => cls.result = NoEvent

\* C14, as claimed: a line with "FATAL EXCEPTION: foo" anywhere in it gives
\* an event of type fatal_exception and severity critical.
C14_FatalAnywhere ==
    (cls.stage = "parsed" /\ Contains(cls.text, FatalFoo))
        => /\ cls.result.error_type = "fatal_exception"
           /\ cls.result.severity = "critical"

\* C14, amended: a line with at least five single spaces whose message (what
\* follows the fifth space) contains "FATAL EXCEPTION: foo" gives an event
\* of type fatal_exception and severity critical.
C14_FatalInMessage ==
    (cls.stage = "parsed" /\ NumParts(cls.text) = 6
       /\ Contains(Message(cls.text), FatalFoo))
        => /\ cls.result.error_type = "fatal_exception"
           /\ cls.result.severity = "critical"

\* C14 witness: a parsed line "w w w w w FATAL EXCEPTION: fooRuntimeException".
C14_Witness ==
    /\ cls.stage = "parsed"
    /\ cls.text = <<"w", SP, "w", SP, "w", SP, "w", SP, "w", SP>>
                    \o FatalFoo \o <<"RuntimeException">>
    /\ cls.result.error_type = "fatal_exception"
    /\ cls.result.severity = "critical"

\* C15, as claimed: a message with a permission-denial signature and the
\* word CAMERA gives permission type camera, whatever else it contains.
C15_CameraWhateverElse ==
    (cls.stage = "parsed" /\ NumParts(cls.text) = 6
       /\ Contains(Message(cls.text), PermDenied)
       /\ \E i \in 1..Len(Message(cls.text)) : Message(cls.text)[i] = "CAMERA")
        => cls.result.permission_type = "camera"

\* C15, amended: such a message gives permission type camera provided it
\* matches none of the rules tried before permission_denied
\* (fatal_exception, null_pointer, out_of_memory).
C15_CameraWhenPermissionDenied ==
    (cls.stage = "parsed" /\ NumParts(cls.text) = 6
       /\ Contains(Message(cls.text), PermDenied)
       /\ (\E i \in 1..Len(Message(cls.text)) : Message(cls.text)[i] = "CAMERA")
       /\ ~Search("fatal_exception", Message(cls.text))
       /\ ~Search("null_pointer", Message(cls.text))
       /\ ~Search("out_of_memory", Message(cls.text)))
        => /\ cls.result.error_type = "permission_denied"
           /\ cls.result.permission_type = "camera"

\* C15 witness: a parsed line whose message is
\* "Permission deniedREAD_EXTERNAL_STORAGECAMERA".
C15_Witness ==
    /\ cls.stage = "parsed"
    /\ cls.text = <<SP, SP, SP, SP, SP>> \o PermDenied
                    \o <<"READ_EXTERNAL_STORAGE", "CAMERA">>
    /\ cls.result.permission_type = "camera"

\* C16: the construction of the bridge object never raises: building the
\* pattern catalog completes.
C16_ConstructionCompletes ==
    ctor.stage # "raised"

====
